---- MODULE Spec2Model ----
(***************************************************************************)
(* documentation.js, src/output/markdown_ast.js: markdownAST turns a       *)
(* forest of comment entries into a remark (mdast) tree.                    *)
(*                                                                         *)
(* JavaScript values are modelled as follows.                              *)
(*  - an object is a record; an optional property that is not set is a     *)
(*    field that is not in the record's DOMAIN;                            *)
(*  - an array is a sequence;                                              *)
(*  - the value a section builder hands to Array.prototype.concat is given *)
(*    as the sequence of elements concat appends for it: an array spreads  *)
(*    to its elements, any other value (a node, false, undefined) is       *)
(*    appended as one element. false and undefined are the placeholder     *)
(*    nodes False and Undefined, which .filter(Boolean) removes;           *)
(*  - a thrown TypeError (reading .length of undefined) is the result      *)
(*    Throw, which every caller propagates.                                *)
(***************************************************************************)
EXTENDS Integers, Sequences, FiniteSets, TLC

VARIABLES
    comments,    \* per invocation: the forest handed to markdownAST
    config,      \* per invocation: the configuration mergeConfig resolves to
    pc,          \* per invocation: how far markdownAST got
    hljs,        \* the process-wide options object of highlight.js
    running,     \* the invocation whose synchronous code is running, 0 if none
    linker,      \* per invocation: the anchors the namespace resolver obtained
    root         \* per invocation: the tree built, NoTree before and on error

vars == <<comments, config, pc, hljs, running, linker, root>>

(***************************************************************************)
(* Bounds of the model.                                                    *)
(***************************************************************************)
MaxEntries == 3
MaxMalformedEntries == 2
MaxReturns == 2
MaxMetaTags == 2
MaxNesting == 1
MaxNamespaces == 2
NumInvocations == 2

Range(s) == {s[k] : k \in DOMAIN s}
Has(obj, key) == key \in DOMAIN obj

(***************************************************************************)
(* unist-builder: u(type, props, children | value).                        *)
(***************************************************************************)
Text(value) == [type |-> "text", value |-> value]
InlineCode(value) == [type |-> "inlineCode", value |-> value]
Html(value) == [type |-> "html", value |-> value]
Strong(children) == [type |-> "strong", children |-> children]
Emphasis(children) == [type |-> "emphasis", children |-> children]
Paragraph(children) == [type |-> "paragraph", children |-> children]
ListItem(children) == [type |-> "listItem", children |-> children]
List(children) == [type |-> "list", ordered |-> FALSE, children |-> children]
Heading(depth, children) == [type |-> "heading", depth |-> depth, children |-> children]
Link(url, children) == [type |-> "link", url |-> url, children |-> children]
Code(lang, value) == [type |-> "code", lang |-> lang, value |-> value]
Root(children) == [type |-> "root", children |-> children]
ThematicBreak == [type |-> "thematicBreak"]

False == [type |-> "false"]
Undefined == [type |-> "undefined"]
Boolean(x) == x.type \notin {"false", "undefined"}
Filter(arr) == SelectSeq(arr, Boolean)

NoTree == [type |-> "none"]
Throw == [ok |-> FALSE, nodes |-> <<>>]
Return(nodes) == [ok |-> TRUE, nodes |-> nodes]

DEFAULT_LANGUAGE == "javascript"

(***************************************************************************)
(* util/format_type (bound to linkerStack.link at line 48).  Its code is   *)
(* not part of the sources at hand; it is modelled from the documented     *)
(* contract: a function type renders its parameter list and, when it has   *)
(* one, its result; a named type renders as its name.  It reads the tag,   *)
(* the params and the result of the expression and nothing else.           *)
(***************************************************************************)
RECURSIVE commaList(_)
commaList(params) ==
    IF Len(params) = 0 THEN <<>>
    ELSE IF Len(params) = 1 THEN <<InlineCode(params[1].name)>>
    ELSE <<InlineCode(params[1].name), Text(", ")>> \o commaList(Tail(params))

RECURSIVE formatType(_)
formatType(node) ==
    IF node.type = "FunctionType"
    THEN <<Text("function (")>> \o commaList(node.params)
         \o (IF Boolean(node.result)
             THEN <<Text("): ")>> \o formatType(node.result)
             ELSE <<Text(")")>>)
    ELSE <<InlineCode(node.name)>>

(***************************************************************************)
(* highlight.js.  configure merges the options given into the process-wide *)
(* options object (options = inherit(options, userOptions)): a key the     *)
(* caller does not give keeps its value.  highlightAuto picks the most     *)
(* relevant language among options.languages, or among all registered      *)
(* languages when that key is unset.                                       *)
(***************************************************************************)
HljsDefaults == [classPrefix |-> "hljs-"]
AllLanguages == <<"javascript", "python">>
Relevance(text, lang) ==
    IF text = "let x = 1" THEN (IF lang = "javascript" THEN 2 ELSE 1)
    ELSE (IF lang = "python" THEN 2 ELSE 1)

hljsConfigure(options, userOptions) == userOptions @@ options

highlightAutoLanguage(options, text) ==
    LET subset == IF Has(options, "languages") THEN options.languages ELSE AllLanguages
    IN  CHOOSE l \in Range(subset) :
            \A m \in Range(subset) : Relevance(text, l) >= Relevance(text, m)

\* line 37: const hljsOptions = config.hljs || {}
hljsOptionsOf(cfg) == IF Has(cfg, "hljs") THEN cfg.hljs ELSE <<>>

(***************************************************************************)
(* The section builders of generate (lines 70-321).  env is the closure    *)
(* generate runs in: env.hljsOptions is buildMarkdownAST's local           *)
(* hljsOptions, env.hljs the process-wide options at the time of the call. *)
(***************************************************************************)
synthesizedTypeLast(comment) ==
    [result |-> IF Len(comment.returns) > 0
                    /\ Has(comment.returns[Len(comment.returns)], "type")
                THEN comment.returns[Len(comment.returns)].type
                ELSE Undefined]
    @@ comment @@ [type |-> "FunctionType"]

\* lines 77-86: Object.assign({type: 'FunctionType'}, comment, {result: ...})
synthesizedType(comment) ==
    [result |-> IF Len(comment.returns) > 0 /\ Has(comment.returns[1], "type")
                THEN comment.returns[1].type
                ELSE Undefined]
    @@ comment @@ [type |-> "FunctionType"]

typeSection(comment) ==
    IF Has(comment, "type")
    THEN <<Paragraph(<<Text("Type: ")>> \o formatType(comment.type))>>
    ELSE IF Has(comment, "kind")
    THEN <<Paragraph(<<Text("Type: ")>> \o formatType(synthesizedType(comment)))>>
    ELSE <<Undefined>>

descriptionChildren(tag) ==
    IF Has(tag, "description") THEN tag.description.children ELSE <<>>

RECURSIVE paramList(_)
paramList(params) ==
    IF Len(params) = 0 THEN <<>>
    ELSE <<List([k \in 1..Len(params) |->
            LET param == params[k]
            IN  ListItem(Filter(
                  <<Paragraph(Filter(
                      <<InlineCode(param.name),
                        Text(" "),
                        IF Has(param, "type") THEN Strong(formatType(param.type)) ELSE False,
                        Text(" ")>>
                      \o descriptionChildren(param)
                      \o <<IF Has(param, "default")
                           THEN Paragraph(<<Text(" (optional, default "),
                                            InlineCode(param.default),
                                            Text(")")>>)
                           ELSE False>>))>>
                  \o (IF Has(param, "properties")
                      THEN paramList(param.properties)
                      ELSE <<Undefined>>)))])>>

paramSection(comment) ==
    IF Len(comment.params) > 0 THEN paramList(comment.params) ELSE <<False>>

RECURSIVE propertyList(_)
propertyList(properties) ==
    <<List([k \in 1..Len(properties) |->
        LET property == properties[k]
        IN  ListItem(Filter(
              <<Paragraph(Filter(
                  <<InlineCode(property.name),
                    Text(" "),
                    Strong(formatType(property.type)),
                    Text(" ")>>
                  \o descriptionChildren(property)))>>
              \o (IF Has(property, "properties")
                  THEN propertyList(property.properties)
                  ELSE <<Undefined>>)))])>>

propertySection(comment) ==
    IF Len(comment.properties) > 0 THEN propertyList(comment.properties) ELSE <<False>>

RECURSIVE examplesReduce(_, _)
examplesReduce(examples, env) ==
    IF Len(examples) = 0 THEN <<>>
    ELSE LET example == examples[1]
             language == IF Has(env.hljsOptions, "highlightAuto")
                            /\ env.hljsOptions.highlightAuto
                         THEN highlightAutoLanguage(env.hljs, example.description)
                         ELSE DEFAULT_LANGUAGE
         IN  (IF Has(example, "caption")
              THEN <<Paragraph(<<[type |-> "emphasis", value |-> example.caption]>>)>>
              ELSE <<>>)
             \o <<Code(language, example.description)>>
             \o examplesReduce(Tail(examples), env)

examplesSection(comment, env) ==
    IF Len(comment.examples) > 0
    THEN <<Text("Examples:")>> \o examplesReduce(comment.examples, env)
    ELSE <<False>>

throwsSection(comment) ==
    IF Len(comment.throws) > 0
    THEN <<List([k \in 1..Len(comment.throws) |->
            ListItem(<<Paragraph(
                <<Text("Throws:"), Text(" "),
                  Strong(formatType(comment.throws[k].type)), Text(" ")>>
                \o descriptionChildren(comment.throws[k]))>>)])>>
    ELSE <<False>>

RECURSIVE join(_)
join(names) ==
    IF Len(names) = 0 THEN ""
    ELSE IF Len(names) = 1 THEN names[1]
    ELSE names[1] \o ", " \o join(Tail(names))

augmentsLink(comment) ==
    IF Len(comment.augments) > 0
    THEN <<Paragraph(<<Strong(
            <<Text("Extends: "),
              Text(join([k \in 1..Len(comment.augments) |-> comment.augments[k].name]))>>)>>)>>
    ELSE <<False>>

seeLink(comment) ==
    IF Len(comment.sees) > 0
    THEN <<List([k \in 1..Len(comment.sees) |->
            ListItem(<<Strong(<<Text("See: ")>> \o comment.sees[k].children)>>)])>>
    ELSE <<False>>

\* lines 289-296: the tags in the order metaSection lists them
metaTags == <<"version", "since", "copyright", "author", "license", "deprecated">>

metaInTagOrder(comment) ==
    LET own == SelectSeq(comment.tags, LAMBDA t : t.title \in Range(metaTags))
    IN  [k \in 1..Len(own) |-> own[k].title]

\* line 296: [...].filter(tag => comment[tag])
metaOf(comment) == SelectSeq(metaTags, LAMBDA tag : Has(comment, tag))

metaSection(comment) ==
    LET meta == metaOf(comment)
    IN  IF Len(meta) > 0
        THEN <<Strong(<<Text("Meta")>>),
               List([k \in 1..Len(meta) |->
                 LET tag == meta[k]
                     metaContent == IF tag \in {"copyright", "deprecated"}
                                    THEN comment[tag]
                                    ELSE Text(comment[tag])
                 IN  ListItem(<<Paragraph(
                        <<Strong(<<Text(tag)>>), Text(": "), metaContent>>)>>)])>>
        ELSE <<False>>

(***************************************************************************)
(* generate (lines 69-393).  memberGroup is one                            *)
(*   .concat(!!comment.members.G.length && comment.members.G.reduce(...))  *)
(* and concatGroups the chain of them, in the order the groups are given.  *)
(***************************************************************************)
memberGroups == <<"global", "instance", "static", "inner">>
noteGroupsAll == memberGroups
\* lines 327-331: a note recurses into members.static only
noteGroups == <<"static">>
standardGroupsStaticFirst == <<"static", "global", "instance", "inner">>
\* lines 363-390: the order of the four .concat calls
standardGroups == <<"global", "instance", "static", "inner">>

nameOf(comment) == IF Has(comment, "name") THEN comment.name ELSE ""
isNote(comment) == Has(comment, "kind") /\ comment.kind = "note"
hasGithub(comment) == Has(comment, "context") /\ Has(comment.context, "github")

RECURSIVE generate(_, _, _)
RECURSIVE generateAll(_, _, _)
RECURSIVE concatGroups(_, _, _, _)

memberGroupSameDepth(depth, comment, group, env) ==
    IF ~Has(comment, "members") \/ ~Has(comment.members, group) THEN Throw
    ELSE IF Len(comment.members[group]) = 0 THEN Return(<<False>>)
    ELSE generateAll(depth, comment.members[group], env)

memberGroupLenient(depth, comment, group, env) ==
    IF ~Has(comment, "members") \/ ~Has(comment.members, group) THEN Return(<<False>>)
    ELSE IF Len(comment.members[group]) = 0 THEN Return(<<False>>)
    ELSE generateAll(depth + 1, comment.members[group], env)

memberGroup(depth, comment, group, env) ==
    IF ~Has(comment, "members") \/ ~Has(comment.members, group) THEN Throw
    ELSE IF Len(comment.members[group]) = 0 THEN Return(<<False>>)
    ELSE generateAll(depth + 1, comment.members[group], env)

concatGroups(depth, comment, groups, env) ==
    IF Len(groups) = 0 THEN Return(<<>>)
    ELSE LET first == memberGroup(depth, comment, groups[1], env)
             rest == concatGroups(depth, comment, Tail(groups), env)
         IN  IF first.ok /\ rest.ok THEN Return(first.nodes \o rest.nodes) ELSE Throw

\* the reduce((memo, child) => memo.concat(generate(depth, child)), [])
generateAll(depth, children, env) ==
    IF Len(children) = 0 THEN Return(<<>>)
    ELSE LET first == generate(depth, children[1], env)
             rest == generateAll(depth, Tail(children), env)
         IN  IF first.ok /\ rest.ok THEN Return(first.nodes \o rest.nodes) ELSE Throw

\* lines 336-347
headingOf(comment) ==
    IF hasGithub(comment)
    THEN <<Link(comment.context.github.url, <<Text(nameOf(comment))>>)>>
    ELSE <<Text(nameOf(comment))>>

\* lines 349-362: everything generate emits for a standard entry itself
standardSections(depth, comment, env) ==
    <<ThematicBreak>>
    \o <<Heading(depth, headingOf(comment))>>
    \o augmentsLink(comment)
    \o seeLink(comment)
    \o descriptionChildren(comment)
    \o typeSection(comment)
    \o paramSection(comment)
    \o propertySection(comment)
    \o throwsSection(comment)
    \o examplesSection(comment, env)
    \o metaSection(comment)

\* lines 324-325: everything generate emits for a note entry itself
noteSections(depth, comment) ==
    <<Heading(depth, <<Text(nameOf(comment))>>)>>
    \o (IF Has(comment, "description") THEN <<comment.description>> ELSE <<Undefined>>)

generate(depth, comment, env) ==
    IF isNote(comment)
    THEN LET members == concatGroups(depth, comment, noteGroups, env)
         IN  IF members.ok
             THEN Return(Filter(noteSections(depth, comment) \o members.nodes))
             ELSE Throw
    ELSE LET members == concatGroups(depth, comment, standardGroups, env)
         IN  IF members.ok
             THEN Return(Filter(standardSections(depth, comment, env) \o members.nodes))
             ELSE Throw

(***************************************************************************)
(* buildMarkdownAST (lines 32-417).                                        *)
(***************************************************************************)
generatorComment ==
    <<Html("<!-- Generated by documentation.js. Update this documentation by updating the source code. -->")>>
tableOfContentsHeading == <<Heading(3, <<Text("Table of Contents")>>)>>
markdownToc(cfg) == Has(cfg, "markdownToc") /\ cfg.markdownToc

\* lines 395-409: the tree handed to rerouteLinks and to the remark plugins
buildRoot(forest, cfg, env) ==
    LET body == generateAll(2, forest, env)
    IN  IF body.ok
        THEN [ok |-> TRUE,
              tree |-> Root(generatorComment
                            \o (IF markdownToc(cfg) THEN tableOfContentsHeading ELSE <<>>)
                            \o body.nodes
                            \o <<ThematicBreak>>)]
        ELSE [ok |-> FALSE, tree |-> NoTree]

(***************************************************************************)
(* github-slugger.  A string is a sequence of characters.  slugger         *)
(* lower-cases, drops punctuation and turns each space into a hyphen;      *)
(* GithubSlugger#slug appends -1, -2, ... to a slug its occurrences table  *)
(* already holds, and records the slug it returns.                         *)
(***************************************************************************)
Punctuation == {".", "#", "/", "~"}
toLowerCase(c) ==
    CASE c = "F" -> "f"
      [] c = "B" -> "b"
      [] OTHER -> c

RECURSIVE slugger(_)
slugger(string) ==
    IF Len(string) = 0 THEN <<>>
    ELSE (IF string[1] \in Punctuation THEN <<>>
          ELSE IF string[1] = " " THEN <<"-">>
          ELSE <<toLowerCase(string[1])>>)
         \o slugger(Tail(string))

RECURSIVE uniqueSlug(_, _, _)
uniqueSlug(occurrences, original, slug) ==
    IF slug \in DOMAIN occurrences
    THEN LET bumped == (original :> (occurrences[original] + 1)) @@ occurrences
         IN  uniqueSlug(bumped, original, original \o <<"-", ToString(bumped[original])>>)
    ELSE [slug |-> slug, occurrences |-> (slug :> 0) @@ occurrences]

githubSluggerSlug(occurrences, value) ==
    uniqueSlug(occurrences, slugger(value), slugger(value))

\* new GithubSlugger(): an empty occurrences table
newGithubSlugger == <<>>

\* lines 42-45: the anchor function handed to namespaceResolver
namespaceAnchor(namespace) ==
    <<"#">> \o githubSluggerSlug(newGithubSlugger, namespace).slug

(***************************************************************************)
(* util/linker_stack, namespaceResolver.  Its code is not part of the      *)
(* sources at hand; it is modelled from the documented contract: the       *)
(* anchor function is invoked once for every entry of the forest, in       *)
(* forest order, with the entry's namespace.                               *)
(***************************************************************************)
RECURSIVE namespacesOf(_)
RECURSIVE namespacesOfGroups(_, _)
namespacesOfGroups(comment, groups) ==
    IF Len(groups) = 0 THEN <<>>
    ELSE (IF Has(comment.members, groups[1])
          THEN namespacesOf(comment.members[groups[1]])
          ELSE <<>>)
         \o namespacesOfGroups(comment, Tail(groups))

namespacesOf(forest) ==
    IF Len(forest) = 0 THEN <<>>
    ELSE <<forest[1].namespace>>
         \o namespacesOfGroups(forest[1], memberGroups)
         \o namespacesOf(Tail(forest))

namespaceResolver(forest) ==
    LET namespaces == namespacesOf(forest)
    IN  [k \in 1..Len(namespaces) |->
            [namespace |-> namespaces[k], anchor |-> namespaceAnchor(namespaces[k])]]

(***************************************************************************)
(* markdownAST, one invocation i (lines 28-30 and 32-417).  JavaScript     *)
(* runs a callback to completion: from hljs.configure to the return of     *)
(* buildMarkdownAST no other invocation's code runs.  running holds the    *)
(* invocation inside buildMarkdownAST.                                     *)
(***************************************************************************)
Invocations == DOMAIN pc

Turn(i) == running \in {0, i}

\* line 29: mergeConfig(args) resolves; the then-callback is queued
MergeConfig(i) ==
    /\ pc[i] = "called"
    /\ Turn(i)
    /\ pc' = [pc EXCEPT ![i] = "merged"]
    /\ UNCHANGED <<comments, config, hljs, running, linker, root>>

\* lines 36-38: buildMarkdownAST starts; hljs.configure(hljsOptions)
Configure(i) ==
    /\ pc[i] = "merged"
    /\ Turn(i)
    /\ hljs' = hljsConfigure(hljs, hljsOptionsOf(config[i]))
    /\ running' = i
    /\ pc' = [pc EXCEPT ![i] = "configured"]
    /\ UNCHANGED <<comments, config, linker, root>>

\* lines 40-48: the linker stack and its namespace resolver
ResolveLinks(i) ==
    /\ pc[i] = "configured"
    /\ Turn(i)
    /\ linker' = [linker EXCEPT ![i] = namespaceResolver(comments[i])]
    /\ pc' = [pc EXCEPT ![i] = "linked"]
    /\ UNCHANGED <<comments, config, hljs, running, root>>

\* lines 395-409: the tree is generated; a TypeError rejects the promise
GenerateTree(i) ==
    /\ pc[i] = "linked"
    /\ Turn(i)
    /\ LET built == buildRoot(comments[i], config[i],
                              [hljsOptions |-> hljsOptionsOf(config[i]), hljs |-> hljs])
       IN  IF built.ok
           THEN /\ root' = [root EXCEPT ![i] = built.tree]
                /\ pc' = [pc EXCEPT ![i] = "generated"]
                /\ UNCHANGED running
           ELSE /\ pc' = [pc EXCEPT ![i] = "rejected"]
                /\ running' = 0
                /\ UNCHANGED root
    /\ UNCHANGED <<comments, config, hljs, linker>>

\* lines 411-416: the plugins are set up and the promise resolves
Finish(i) ==
    /\ pc[i] = "generated"
    /\ Turn(i)
    /\ pc' = [pc EXCEPT ![i] = "resolved"]
    /\ running' = 0
    /\ UNCHANGED <<comments, config, hljs, linker, root>>

Next ==
    \/ \E i \in Invocations : MergeConfig(i)
    \/ \E i \in Invocations : Configure(i)
    \/ \E i \in Invocations : ResolveLinks(i)
    \/ \E i \in Invocations : GenerateTree(i)
    \/ \E i \in Invocations : Finish(i)

(***************************************************************************)
(* Comment entries.  bareEntry is what the parser gives an entry with no   *)
(* tags: every sequence present and empty, the four member groups present. *)
(***************************************************************************)
NameExpression(name) == [type |-> "NameExpression", name |-> name]
Description(text) == Root(<<Paragraph(<<Text(text)>>)>>)
Chars(i) == <<"e", ToString(i)>>
EntryName(i) == "e" \o ToString(i)

emptyMembers == [g \in Range(memberGroups) |-> <<>>]

bareEntry(name, namespace) ==
    [name |-> name, namespace |-> namespace, tags |-> <<>>,
     augments |-> <<>>, sees |-> <<>>, params |-> <<>>, properties |-> <<>>,
     returns |-> <<>>, throws |-> <<>>, examples |-> <<>>,
     members |-> emptyMembers]

\* an entry with data for every section
sectionData(name) ==
    [description |-> Description("about " \o name),
     augments |-> <<[name |-> "Base"]>>,
     sees |-> <<Root(<<Text("other")>>)>>,
     params |-> <<[name |-> "x", type |-> NameExpression("Number")]>>,
     properties |-> <<[name |-> "p", type |-> NameExpression("String")]>>,
     returns |-> <<[type |-> NameExpression("String")]>>,
     throws |-> <<[type |-> NameExpression("Error")]>>,
     examples |-> <<[description |-> "let x = 1"]>>,
     since |-> "1.0.0",
     tags |-> <<[title |-> "since"]>>]

sourceContext(name) ==
    [context |-> [github |-> [url |-> "https://github.com/o/r/blob/" \o name,
                              path |-> "index.js"]]]

fullEntry(name, namespace, github) ==
    (IF github THEN sourceContext(name) ELSE <<>>)
    @@ sectionData(name) @@ bareEntry(name, namespace)

(***************************************************************************)
(* Forests, enumerated from tables: entry j has parent[j] < j (0 for a     *)
(* top-level entry), sits in group[j] of its parent, is of kind[j] and     *)
(* lacks the member groups lacks[j].  Siblings keep the order of their     *)
(* numbers.                                                                *)
(***************************************************************************)
Groups == Range(memberGroups)
Kinds == {"note", "function"}

RECURSIVE ascending(_)
ascending(S) ==
    IF S = {} THEN <<>>
    ELSE LET least == CHOOSE x \in S : \A y \in S : x <= y
         IN  <<least>> \o ascending(S \ {least})

Parents(n) == {p \in [1..n -> 0..(n - 1)] : \A j \in 1..n : p[j] < j}
GroupsFor(n, p) ==
    {g \in [1..n -> Groups] : \A j \in 1..n : p[j] = 0 => g[j] = "static"}

Table(n, p, g, k, l) == [n |-> n, parent |-> p, group |-> g, kind |-> k, lacks |-> l]

RECURSIVE entryOf(_, _, _)
entryOf(t, full, j) ==
    [kind |-> t.kind[j],
     members |-> [g \in Groups \ t.lacks[j] |->
        LET kids == ascending({c \in 1..t.n : t.parent[c] = j /\ t.group[c] = g})
        IN  [k \in 1..Len(kids) |-> entryOf(t, full, kids[k])]]]
    @@ (IF full THEN fullEntry(EntryName(j), Chars(j), j % 2 = 1)
        ELSE bareEntry(EntryName(j), Chars(j)))

forestOf(t, full) ==
    LET tops == ascending({c \in 1..t.n : t.parent[c] = 0})
    IN  [k \in 1..Len(tops) |-> entryOf(t, full, tops[k])]

InitOne(forest, cfg) ==
    /\ comments = (1 :> forest)
    /\ config = (1 :> cfg)
    /\ pc = (1 :> "called")
    /\ hljs = HljsDefaults
    /\ running = 0
    /\ linker = (1 :> <<>>)
    /\ root = (1 :> NoTree)

(***************************************************************************)
(* Well-formed forests of up to MaxEntries entries, every entry with data  *)
(* for every section, the odd-numbered ones with a source location.        *)
(***************************************************************************)
InitTree ==
    \E n \in 1..MaxEntries :
      \E p \in Parents(n) :
        \E g \in GroupsFor(n, p), k \in [1..n -> Kinds] :
          InitOne(forestOf(Table(n, p, g, k, [j \in 1..n |-> {}]), TRUE),
                  [markdownToc |-> TRUE])

SpecTree == InitTree /\ [][Next]_vars

(***************************************************************************)
(* Reading a forest and a generated tree.                                  *)
(***************************************************************************)
Done(i) == pc[i] \in {"generated", "resolved"}

\* the nodes generate contributed: the root's children without the leading
\* generator comment and table-of-contents heading and the closing break
EntryNodes(i) ==
    LET all == root[i].children
        skip == IF markdownToc(config[i]) THEN 2 ELSE 1
    IN  SubSeq(all, skip + 1, Len(all) - 1)

HeadingName(node) ==
    IF node.children[1].type = "link"
    THEN node.children[1].children[1].value
    ELSE node.children[1].value

GroupOf(comment, g) == IF Has(comment.members, g) THEN comment.members[g] ELSE <<>>

RECURSIVE EntriesAt(_, _)
\* every entry of the forest with its nesting level, top-level entries at n
EntriesAt(forest, n) ==
    IF Len(forest) = 0 THEN <<>>
    ELSE <<[entry |-> forest[1], level |-> n]>>
         \o EntriesAt(GroupOf(forest[1], "global"), n + 1)
         \o EntriesAt(GroupOf(forest[1], "instance"), n + 1)
         \o EntriesAt(GroupOf(forest[1], "static"), n + 1)
         \o EntriesAt(GroupOf(forest[1], "inner"), n + 1)
         \o EntriesAt(Tail(forest), n)

EntryNamed(forest, name) ==
    SelectSeq(EntriesAt(forest, 0), LAMBDA e : e.entry.name = name)[1]

NamesOf(children) == [k \in DOMAIN children |-> children[k].name]

\* the positions of the headings in a node sequence
HeadingsIn(nodes) == {k \in DOMAIN nodes : nodes[k].type = "heading"}

\* the first position after heading k that belongs to another entry which is
\* not below it: the next heading of the same or a smaller depth, or the
\* thematic break that introduces it
SubtreeEnd(nodes, k) ==
    LET later == {h \in HeadingsIn(nodes) : h > k /\ nodes[h].depth <= nodes[k].depth}
        next == IF later = {} THEN Len(nodes) + 1
                ELSE CHOOSE h \in later : \A o \in later : h <= o
    IN  IF next <= Len(nodes) /\ nodes[next - 1].type = "thematicBreak"
        THEN next - 1 ELSE next

\* the first position after heading k that belongs to another entry
OwnEnd(nodes, k) ==
    LET later == {h \in HeadingsIn(nodes) : h > k}
        next == IF later = {} THEN Len(nodes) + 1
                ELSE CHOOSE h \in later : \A o \in later : h <= o
    IN  IF next <= Len(nodes) /\ nodes[next - 1].type = "thematicBreak"
        THEN next - 1 ELSE next

\* what the entry of heading k emitted after its heading
OwnNodes(nodes, k) == SubSeq(nodes, k + 1, OwnEnd(nodes, k) - 1)

\* the names on the headings one level below heading k, inside its subtree
ChildHeadings(nodes, k) ==
    LET kids == ascending({h \in HeadingsIn(nodes) :
                    /\ h > k
                    /\ h < SubtreeEnd(nodes, k)
                    /\ nodes[h].depth = nodes[k].depth + 1})
    IN  [j \in DOMAIN kids |-> HeadingName(nodes[kids[j]])]

SectionOf(node) ==
    IF node.type = "paragraph"
    THEN LET first == node.children[1]
         IN  IF first.type = "strong" THEN 3
             ELSE IF first.type = "emphasis" THEN 10
             ELSE IF first = Text("Type: ") THEN 6
             ELSE 5
    ELSE IF node.type = "list"
    THEN LET first == node.children[1].children[1]
         IN  IF first.type = "strong" THEN 4
             ELSE LET lead == first.children[1]
                  IN  IF lead.type = "strong" THEN 11
                      ELSE IF lead.type = "text" THEN 9
                      ELSE IF lead.value = "x" THEN 7
                      ELSE 8
    ELSE IF node.type = "strong" THEN 11
    ELSE 10

\* the sections an entry has data for; the type section is listed for an
\* explicit type and for a function without one
SectionsWithData(comment) ==
    (IF Len(comment.augments) > 0 THEN {3} ELSE {})
    \cup (IF Len(comment.sees) > 0 THEN {4} ELSE {})
    \cup (IF Has(comment, "description") THEN {5} ELSE {})
    \cup (IF Has(comment, "type") \/ (Has(comment, "kind") /\ comment.kind = "function")
          THEN {6} ELSE {})
    \cup (IF Len(comment.params) > 0 THEN {7} ELSE {})
    \cup (IF Len(comment.properties) > 0 THEN {8} ELSE {})
    \cup (IF Len(comment.throws) > 0 THEN {9} ELSE {})
    \cup (IF Len(comment.examples) > 0 THEN {10} ELSE {})
    \cup (IF \E tag \in Range(metaTags) : Has(comment, tag) THEN {11} ELSE {})

InSectionOrder(nodes) ==
    \A a, b \in DOMAIN nodes : a < b => SectionOf(nodes[a]) <= SectionOf(nodes[b])

(***************************************************************************)
(* C2.  A standard entry's output is: thematic break, heading, then its    *)
(* sections in the order extends, see also, description, type, parameters, *)
(* properties, thrown errors, examples, metadata, then the whole outputs   *)
(* of its global, instance, static and inner children, each group in input *)
(* order; top-level entries appear in input order.                         *)
(***************************************************************************)
C2_SectionAndMemberOrder ==
    \A i \in Invocations :
      Done(i) =>
        LET nodes == EntryNodes(i)
            tops == ascending({h \in HeadingsIn(nodes) : nodes[h].depth = 2})
        IN  /\ [j \in DOMAIN tops |-> HeadingName(nodes[tops[j]])] = NamesOf(comments[i])
            /\ \A k \in HeadingsIn(nodes) :
                 LET comment == EntryNamed(comments[i], HeadingName(nodes[k])).entry
                     own == OwnNodes(nodes, k)
                 IN  ~isNote(comment) =>
                       /\ k > 1 /\ nodes[k - 1] = ThematicBreak
                       /\ InSectionOrder(own)
                       /\ {SectionOf(own[j]) : j \in DOMAIN own} = SectionsWithData(comment)
                       /\ ChildHeadings(nodes, k)
                            = NamesOf(comment.members.global)
                              \o NamesOf(comment.members.instance)
                              \o NamesOf(comment.members.static)
                              \o NamesOf(comment.members.inner)

\* a standard entry with data for every section whose first child is a static
\* one and whose second child a global one
C2_Witness ==
    \E i \in Invocations :
      /\ pc[i] = "resolved"
      /\ \E a \in DOMAIN comments[i] :
           LET comment == comments[i][a]
           IN  /\ ~isNote(comment)
               /\ SectionsWithData(comment) = 3..11
               /\ Len(comment.members.static) > 0
               /\ Len(comment.members.global) > 0
               /\ comment.members.static[1].name = "e2"
               /\ comment.members.global[1].name = "e3"

(***************************************************************************)
(* C3.  A note entry emits a heading (no thematic break, no source link)   *)
(* and its description, then its static children at depth d+1 in input     *)
(* order, and nothing else; no entry reachable only through a note's       *)
(* global, instance or inner group contributes a heading.                  *)
(***************************************************************************)
RECURSIVE Visited(_)
\* top-level entries, the children of a visited standard entry in all four
\* groups, the static children of a visited note
Visited(forest) ==
    UNION {
      {forest[k].name}
      \cup UNION {Visited(GroupOf(forest[k], g)) :
                    g \in IF isNote(forest[k]) THEN {"static"} ELSE Groups} :
      k \in DOMAIN forest}

AllNames(forest) == {e.entry.name : e \in Range(EntriesAt(forest, 0))}

C3_NoteShortCircuit ==
    \A i \in Invocations :
      Done(i) =>
        LET nodes == EntryNodes(i)
        IN  /\ {HeadingName(nodes[k]) : k \in HeadingsIn(nodes)} = Visited(comments[i])
            /\ \A k \in HeadingsIn(nodes) :
                 LET comment == EntryNamed(comments[i], HeadingName(nodes[k])).entry
                 IN  isNote(comment) =>
                       /\ nodes[k].children = <<Text(comment.name)>>
                       /\ (k = 1 \/ nodes[k - 1] # ThematicBreak)
                       /\ OwnNodes(nodes, k)
                            = (IF Has(comment, "description")
                               THEN <<comment.description>> ELSE <<>>)
                       /\ ChildHeadings(nodes, k) = NamesOf(comment.members.static)

\* a note with data for every section, a static child and an instance child
C3_Witness ==
    \E i \in Invocations :
      /\ pc[i] = "resolved"
      /\ \E a \in DOMAIN comments[i] :
           LET comment == comments[i][a]
           IN  /\ isNote(comment)
               /\ Len(comment.params) > 0
               /\ hasGithub(comment)
               /\ Has(comment, "description")
               /\ Len(comment.members.static) > 0
               /\ Len(comment.members.instance) > 0
               /\ AllNames(comments[i]) # Visited(comments[i])

(***************************************************************************)
(* Forests of up to MaxMalformedEntries bare entries in which at most one  *)
(* entry lacks one of its four member groups.                              *)
(***************************************************************************)
LackTables(n) ==
    {[j \in 1..n |-> {}]}
    \cup {[j \in 1..n |-> IF j = bad THEN {g} ELSE {}] : bad \in 1..n, g \in Groups}

InitMalformed ==
    \E n \in 1..MaxMalformedEntries :
      \E p \in Parents(n) :
        \E g \in GroupsFor(n, p), k \in [1..n -> Kinds], l \in LackTables(n),
           toc \in BOOLEAN :
          InitOne(forestOf(Table(n, p, g, k, l), FALSE), [markdownToc |-> toc])

SpecMalformed == InitMalformed /\ [][Next]_vars

Ended(i) == pc[i] \in {"rejected", "resolved"}

RECURSIVE ReadsMissingGroup(_)
\* some entry generate visits lacks a group generate reads for it: any of the
\* four for a standard entry, static for a note
ReadsMissingGroup(forest) ==
    \E k \in DOMAIN forest :
      LET read == IF isNote(forest[k]) THEN {"static"} ELSE Groups
      IN  \/ ~(read \subseteq DOMAIN forest[k].members)
          \/ \E g \in read \cap DOMAIN forest[k].members :
               ReadsMissingGroup(forest[k].members[g])

LacksGroup(forest) ==
    \E e \in Range(EntriesAt(forest, 0)) : DOMAIN e.entry.members # Groups

(***************************************************************************)
(* C9 as claimed.  Whenever any entry of the forest, at any level and of   *)
(* any kind, lacks one of the four member groups, the invocation ends      *)
(* rejected and delivers no tree.                                          *)
(***************************************************************************)
C9_AnyMissingGroupRejects ==
    \A i \in Invocations :
      (Ended(i) /\ LacksGroup(comments[i])) => (pc[i] = "rejected" /\ root[i] = NoTree)

(***************************************************************************)
(* C9 as amended.  An invocation ends rejected with no tree, or resolved   *)
(* with the tree of the whole forest, and never delivers a tree before or  *)
(* without finishing it.  It ends rejected exactly when an entry that      *)
(* generate visits lacks a group that generate reads for it.               *)
(***************************************************************************)
C9_ReadMissingGroupRejects ==
    \A i \in Invocations :
      /\ \/ Ended(i)
         \/ pc[i] \in {"called", "merged", "configured", "linked", "generated"} /\ Turn(i)
      /\ ~Done(i) => root[i] = NoTree
      /\ pc[i] = "rejected" => ReadsMissingGroup(comments[i])
      /\ pc[i] \in {"generated", "resolved"} =>
           /\ ~ReadsMissingGroup(comments[i])
           /\ root[i].type = "root"
           /\ {HeadingName(EntryNodes(i)[k]) : k \in HeadingsIn(EntryNodes(i))}
                = Visited(comments[i])

\* rejected because a visited child of a standard entry lacks a group
C9_Witness ==
    \E i \in Invocations :
      /\ pc[i] = "rejected"
      /\ root[i] = NoTree
      /\ Len(comments[i]) = 1
      /\ DOMAIN comments[i][1].members = Groups
      /\ ~isNote(comments[i][1])

(***************************************************************************)
(* One top-level entry with or without a kind, an explicit type, a         *)
(* parameter, and up to MaxReturns returns tags, typed or not.             *)
(***************************************************************************)
KindsOrNone == {<<>>} \cup {[kind |-> k] : k \in {"function", "class", "member", "module"}}
TypeOrNone == {<<>>, [type |-> NameExpression("Number")]}
ReturnTags ==
    {[type |-> NameExpression("String")],
     [type |-> NameExpression("Boolean")],
     [description |-> Description("nothing")]}
ReturnLists == UNION {[1..n -> ReturnTags] : n \in 0..MaxReturns}
ParamLists == {<<>>, <<[name |-> "x", type |-> NameExpression("Number")]>>}

InitType ==
    \E k \in KindsOrNone, t \in TypeOrNone, ps \in ParamLists, rs \in ReturnLists :
      InitOne(<<[params |-> ps, returns |-> rs] @@ k @@ t @@ bareEntry("f", Chars(1))>>,
              [markdownToc |-> TRUE])

SpecType == InitType /\ [][Next]_vars

\* the kinds that mark an entry callable
Callable == {"function"}

IsTypeParagraph(node) == node.type = "paragraph" /\ node.children[1] = Text("Type: ")
TypeParagraphs(i) == SelectSeq(EntryNodes(i), IsTypeParagraph)

FirstReturnType(comment) ==
    IF Len(comment.returns) > 0 /\ Has(comment.returns[1], "type")
    THEN comment.returns[1].type
    ELSE Undefined

FirstReturnOnly(forest) ==
    [k \in DOMAIN forest |->
       [forest[k] EXCEPT !.returns = SubSeq(@, 1, IF Len(@) > 0 THEN 1 ELSE 0)]]

ClosureOf(i) == [hljsOptions |-> hljsOptionsOf(config[i]), hljs |-> hljs]

(***************************************************************************)
(* C6.  For a callable entry without explicit type, the expression handed  *)
(* to the type formatter is a FunctionType whose params are the entry's    *)
(* params and whose result is the type of returns[0] (undefined when there *)
(* is none); the returns entries after the first never change the tree.    *)
(***************************************************************************)
C6_FirstReturnOnly ==
    \A i \in Invocations :
      Done(i) =>
        /\ root[i] = buildRoot(FirstReturnOnly(comments[i]), config[i], ClosureOf(i)).tree
        /\ \A a \in DOMAIN comments[i] :
             LET comment == comments[i][a]
                 handed == synthesizedType(comment)
             IN  (Has(comment, "kind") /\ comment.kind \in Callable /\ ~Has(comment, "type")) =>
                   /\ handed.type = "FunctionType"
                   /\ handed.params = comment.params
                   /\ handed.result = FirstReturnType(comment)
                   /\ TypeParagraphs(i)
                        = <<Paragraph(<<Text("Type: ")>>
                              \o formatType([type |-> "FunctionType",
                                             params |-> comment.params,
                                             result |-> FirstReturnType(comment)]))>>

\* a function without explicit type whose two returns tags differ in type
C6_Witness ==
    \E i \in Invocations :
      /\ pc[i] = "resolved"
      /\ LET comment == comments[i][1]
         IN  /\ Has(comment, "kind") /\ comment.kind = "function"
             /\ ~Has(comment, "type")
             /\ Len(comment.params) = 1
             /\ Len(comment.returns) >= 2
             /\ comment.returns[1] = [type |-> NameExpression("String")]
             /\ comment.returns[2] = [type |-> NameExpression("Boolean")]

(***************************************************************************)
(* C10 as claimed.  Without explicit type, a standard entry gets the       *)
(* synthesized 'Type:' paragraph only when its kind is callable; with a    *)
(* non-callable kind or no kind it gets none; with an explicit type the    *)
(* paragraph is built from that type.                                      *)
(***************************************************************************)
C10_TypeOnlyWhenCallable ==
    \A i \in Invocations :
      Done(i) =>
        LET comment == comments[i][1]
        IN  IF Has(comment, "type")
            THEN TypeParagraphs(i)
                   = <<Paragraph(<<Text("Type: ")>> \o formatType(comment.type))>>
            ELSE IF Has(comment, "kind") /\ comment.kind \in Callable
            THEN TypeParagraphs(i)
                   = <<Paragraph(<<Text("Type: ")>> \o formatType(synthesizedType(comment)))>>
            ELSE TypeParagraphs(i) = <<>>

(***************************************************************************)
(* One top-level entry whose sections are each empty or not, and whose     *)
(* parameter and property tags nest up to MaxNesting levels, a tag's own   *)
(* properties being absent, empty or one tag.                              *)
(***************************************************************************)
RECURSIVE TagsTo(_, _)
TagsTo(name, d) ==
    LET plain == [name |-> name, type |-> NameExpression("Object")]
    IN  {plain, [properties |-> <<>>] @@ plain}
        \cup (IF d = 0 THEN {}
              ELSE {[properties |-> <<t>>] @@ plain : t \in TagsTo(name, d - 1)})

ParamVariants ==
    {<<>>, <<[name |-> "x", default |-> "1"]>>}
    \cup {<<t>> : t \in TagsTo("x", MaxNesting)}
PropertyVariants == {<<>>} \cup {<<t>> : t \in TagsTo("p", MaxNesting)}

Optional(present, fields) == IF present THEN fields ELSE <<>>

InitLists ==
    \E ps \in ParamVariants, pr \in PropertyVariants, k \in {<<>>, [kind |-> "function"]} :
      \E aug, see, thr, exa, met, des \in BOOLEAN :
        InitOne(<<[params |-> ps, properties |-> pr]
                  @@ k
                  @@ Optional(aug, [augments |-> <<[name |-> "Base"]>>])
                  @@ Optional(see, [sees |-> <<Root(<<Text("other")>>)>>])
                  @@ Optional(thr, [throws |-> <<[type |-> NameExpression("Error")]>>])
                  @@ Optional(exa, [examples |-> <<[description |-> "let x = 1"]>>])
                  @@ Optional(met, [since |-> "1.0.0", tags |-> <<[title |-> "since"]>>])
                  @@ Optional(des, [description |-> Description("about f")])
                  @@ bareEntry("f", Chars(1))>>,
                [markdownToc |-> des])

SpecLists == InitLists /\ [][Next]_vars

RECURSIVE NoGap(_)
\* no false or undefined placeholder and no list without items, at any depth
NoGap(node) ==
    /\ node.type \notin {"false", "undefined"}
    /\ node.type = "list" => Len(node.children) > 0
    /\ Has(node, "children") => \A k \in DOMAIN node.children : NoGap(node.children[k])

OmittableSections == {3, 4, 7, 8, 9, 10, 11}

(***************************************************************************)
(* C5 as claimed.  The extends, see-also, parameters, properties,          *)
(* thrown-errors, examples and metadata sections contribute no node when   *)
(* their data is empty, and the tree holds no placeholder and no list      *)
(* without items, the lists nested under a parameter or property item      *)
(* with an empty properties sequence included.                             *)
(***************************************************************************)
C5_NoGaps ==
    \A i \in Invocations :
      Done(i) =>
        /\ NoGap(root[i])
        /\ LET own == OwnNodes(EntryNodes(i), 2)
           IN  {SectionOf(own[j]) : j \in DOMAIN own} \cap OmittableSections
                 = SectionsWithData(comments[i][1]) \cap OmittableSections

(***************************************************************************)
(* One top-level entry with up to MaxMetaTags of the six metadata tags,    *)
(* in any order of occurrence on the entry.                                *)
(***************************************************************************)
TagOrders ==
    UNION {{o \in [1..n -> Range(metaTags)] : \A a, b \in 1..n : a # b => o[a] # o[b]} :
           n \in 0..MaxMetaTags}

metaValue(tag) ==
    IF tag \in {"copyright", "deprecated"} THEN Description("about " \o tag) ELSE "v-" \o tag

InitMeta ==
    \E o \in TagOrders, k \in {<<>>, [kind |-> "function"]}, toc \in BOOLEAN :
      InitOne(<<[tag \in Range(o) |-> metaValue(tag)]
                @@ [tags |-> [j \in DOMAIN o |-> [title |-> o[j]]]]
                @@ k
                @@ bareEntry("f", Chars(1))>>,
              [markdownToc |-> toc])

SpecMeta == InitMeta /\ [][Next]_vars

ClaimedTagOrder == <<"version", "since", "copyright", "author", "license", "deprecated">>
Position(order, tag) == CHOOSE k \in DOMAIN order : order[k] = tag

MetaNodes(i) ==
    SelectSeq(OwnNodes(EntryNodes(i), 2), LAMBDA node : node.type \in {"strong", "list"})
ItemTag(item) == item.children[1].children[1].children[1].value

(***************************************************************************)
(* C7.  The metadata list has exactly one item per tag set on the entry    *)
(* among version, since, copyright, author, license, deprecated, in that   *)
(* order whatever the order of the tags on the entry; with none set the    *)
(* section is absent.                                                      *)
(***************************************************************************)
C7_MetaOrder ==
    \A i \in Invocations :
      Done(i) =>
        LET comment == comments[i][1]
            set == {tag \in Range(ClaimedTagOrder) : Has(comment, tag)}
            meta == MetaNodes(i)
        IN  IF set = {} THEN meta = <<>>
            ELSE /\ Len(meta) = 2
                 /\ meta[1] = Strong(<<Text("Meta")>>)
                 /\ meta[2].type = "list"
                 /\ Len(meta[2].children) = Cardinality(set)
                 /\ {ItemTag(meta[2].children[k]) : k \in DOMAIN meta[2].children} = set
                 /\ \A a, b \in DOMAIN meta[2].children :
                      a < b => Position(ClaimedTagOrder, ItemTag(meta[2].children[a]))
                                 < Position(ClaimedTagOrder, ItemTag(meta[2].children[b]))

\* deprecated occurs before since on the entry; the list has since, then deprecated
C7_Witness ==
    \E i \in Invocations :
      /\ pc[i] = "resolved"
      /\ [j \in DOMAIN comments[i][1].tags |-> comments[i][1].tags[j].title]
           = <<"deprecated", "since">>
      /\ Len(MetaNodes(i)) = 2
      /\ [k \in DOMAIN MetaNodes(i)[2].children |-> ItemTag(MetaNodes(i)[2].children[k])]
           = <<"since", "deprecated">>

(***************************************************************************)
(* Up to MaxNamespaces top-level entries whose namespaces are drawn from   *)
(* "Foo Bar", "foo-bar", "Foo#bar" and "Foo".                              *)
(***************************************************************************)
NamespacePool ==
    {<<"F", "o", "o", " ", "B", "a", "r">>,
     <<"f", "o", "o", "-", "b", "a", "r">>,
     <<"F", "o", "o", "#", "b", "a", "r">>,
     <<"F", "o", "o">>}

InitAnchors ==
    \E n \in 1..MaxNamespaces :
      \E ns \in [1..n -> NamespacePool], toc \in BOOLEAN :
        InitOne([j \in 1..n |-> [kind |-> "function"] @@ bareEntry(EntryName(j), ns[j])],
                [markdownToc |-> toc])

SpecAnchors == InitAnchors /\ [][Next]_vars

(***************************************************************************)
(* C4 as claimed.  The anchors the anchor function returns within one      *)
(* invocation are pairwise distinct, for namespaces whose slugs coincide   *)
(* and for a repeated namespace alike.                                     *)
(***************************************************************************)
C4_AnchorsDistinct ==
    \A i \in Invocations :
      pc[i] \in {"linked", "generated", "resolved"} =>
        \A a, b \in DOMAIN linker[i] :
          a # b => linker[i][a].anchor # linker[i][b].anchor

(***************************************************************************)
(* NumInvocations concurrent invocations over the same one-example forest, *)
(* each with its own highlighting settings.                                *)
(***************************************************************************)
HljsSettings ==
    {<<>>,
     [hljs |-> [highlightAuto |-> FALSE]],
     [hljs |-> [highlightAuto |-> TRUE]],
     [hljs |-> [highlightAuto |-> TRUE, languages |-> <<"python">>]]}

InitConcurrent ==
    \E settings \in [1..NumInvocations -> HljsSettings] :
      /\ comments = [i \in 1..NumInvocations |->
            <<[kind |-> "function", examples |-> <<[description |-> "let x = 1"]>>]
              @@ bareEntry("f", Chars(1))>>]
      /\ config = [i \in 1..NumInvocations |-> settings[i] @@ [markdownToc |-> FALSE]]
      /\ pc = [i \in 1..NumInvocations |-> "called"]
      /\ hljs = HljsDefaults
      /\ running = 0
      /\ linker = [i \in 1..NumInvocations |-> <<>>]
      /\ root = [i \in 1..NumInvocations |-> NoTree]

SpecConcurrent == InitConcurrent /\ [][Next]_vars

\* the options in force when an invocation with these settings runs alone
OwnOptions(i) == hljsConfigure(HljsDefaults, hljsOptionsOf(config[i]))
CodeBlocks(i) == SelectSeq(EntryNodes(i), LAMBDA node : node.type = "code")

(***************************************************************************)
(* C8 as claimed.  While an invocation is between its hljs.configure and   *)
(* the end of its tree generation no other invocation runs and the         *)
(* process-wide options are the ones it set; every example code block is   *)
(* tagged from its own invocation's settings, 'javascript' when its        *)
(* highlightAuto is false or unset.                                        *)
(***************************************************************************)
C8_OwnHighlighting ==
    \A i \in Invocations :
      /\ pc[i] \in {"configured", "linked"} =>
           /\ running = i
           /\ \A j \in Invocations \ {i} : pc[j] \notin {"configured", "linked", "generated"}
           /\ \A key \in DOMAIN hljsOptionsOf(config[i]) :
                Has(hljs, key) /\ hljs[key] = hljsOptionsOf(config[i])[key]
      /\ Done(i) =>
           \A k \in DOMAIN CodeBlocks(i) :
             CodeBlocks(i)[k].lang
               = IF Has(hljsOptionsOf(config[i]), "highlightAuto")
                    /\ hljsOptionsOf(config[i]).highlightAuto
                 THEN highlightAutoLanguage(OwnOptions(i), CodeBlocks(i)[k].value)
                 ELSE DEFAULT_LANGUAGE

====
